---- MODULE Spec2Model ----
\* The chess-simulator controller (App component): the move orchestrator, the
\* snapshot builder, the capture aggregator, the feedback classifier and the
\* advisory request, over a rules engine.
\*
\* The rules engine (chess.js) is an external library.  It is modelled here by
\* its contract on a board of one rank and eight files carrying, per side, a
\* king, a knight and a rook: legal moves never leave the mover's king
\* attacked, and check, checkmate, stalemate, insufficient material, the
\* half-move clock and repetition are computed as chess.js computes them.
EXTENDS Integers, Sequences, FiniteSets

\* ---------------------------------------------------------------- bounds
\* Most successful moves in one game under Spec (all handlers enabled).
MaxMoves == 1
\* Most advisory requests issued in one run.
MaxRequests == 1
\* Most successful moves in one game under SpecGame (clicks and new games only).
MaxPlies == 9
\* Half-moves without a capture after which the engine reports a draw
\* (chess.js: 100, scaled to the games the model plays).
HalfMoveLimit == 9

\* ---------------------------------------------------------------- values
Files == 1 .. 8
NoSquare == 0
Colors == {"w", "b"}
Null == [kind |-> "null"]
NoRequest == [kind |-> "none"]

MOVE == "move"
CAPTURE == "capture"
CHECK == "check"
START == "start"
END == "end"

Opp(c) == IF c = "w" THEN "b" ELSE "w"

\* A square holds Empty or a piece, written colour then kind.
Empty == "--"
Piece(t, c) == IF c = "w" THEN (CASE t = "k" -> "wk" [] t = "n" -> "wn" [] OTHER -> "wr")
               ELSE (CASE t = "k" -> "bk" [] t = "n" -> "bn" [] OTHER -> "br")
ColorOf(p) == CASE p \in {"wk", "wn", "wr"} -> "w"
                [] p \in {"bk", "bn", "br"} -> "b"
                [] OTHER -> "-"
TypeOf(p) == CASE p \in {"wk", "bk"} -> "k"
               [] p \in {"wn", "bn"} -> "n"
               [] p \in {"wr", "br"} -> "r"
               [] OTHER -> "-"

StartBoard ==
  [s \in Files |->
     CASE s = 1 -> "wk"
       [] s = 2 -> "wn"
       [] s = 3 -> "wr"
       [] s = 6 -> "br"
       [] s = 7 -> "bn"
       [] s = 8 -> "bk"
       [] OTHER -> Empty]

\* ---------------------------------------------------------------- rules engine
Between(a, b) == {s \in Files : (a < s /\ s < b) \/ (b < s /\ s < a)}

Dist(a, b) == IF a < b THEN b - a ELSE a - b

\* The piece on f reaches t: a king one file, a knight two files (leaping), a
\* rook any number of files over empty squares.
Attacks(board, f, t) ==
  /\ f # t
  /\ CASE TypeOf(board[f]) = "k" -> Dist(f, t) = 1
       [] TypeOf(board[f]) = "n" -> Dist(f, t) = 2
       [] TypeOf(board[f]) = "r" -> \A s \in Between(f, t) : board[s] = Empty
       [] OTHER -> FALSE

KingSquare(board, c) == CHOOSE s \in Files : board[s] = Piece("k", c)

KingAttacked(board, c) ==
  LET k == KingSquare(board, c)
  IN \E f \in Files : ColorOf(board[f]) = Opp(c) /\ Attacks(board, f, k)

Place(board, f, t) == [board EXCEPT ![t] = board[f], ![f] = Empty]

Legal(board, c, f, t) ==
  /\ f \in Files
  /\ t \in Files
  /\ ColorOf(board[f]) = c
  /\ ColorOf(board[t]) # c
  /\ Attacks(board, f, t)
  /\ ~KingAttacked(Place(board, f, t), c)

HasLegalMove(board, c) == \E f \in Files : \E t \in Files : Legal(board, c, f, t)

\* A Chess instance: the position and the moves made on this instance, each
\* with the clocks undo restores.  A position string carries no moves, so an
\* instance loaded from one starts with an empty history.
Fen(chess) ==
  [board |-> chess.board, turn |-> chess.turn,
   halfMoves |-> chess.halfMoves, moveNumber |-> chess.moveNumber]

Load(fen) ==
  [board |-> fen.board, turn |-> fen.turn,
   halfMoves |-> fen.halfMoves, moveNumber |-> fen.moveNumber,
   history |-> << >>]

DefaultFen == [board |-> StartBoard, turn |-> "w", halfMoves |-> 0, moveNumber |-> 1]

NewChess == Load(DefaultFen)

VerboseMove(chess, f, t) ==
  [color |-> chess.turn, from |-> f, to |-> t,
   piece |-> TypeOf(chess.board[f]), captured |-> TypeOf(chess.board[t])]

IsLegalMove(chess, f, t) == Legal(chess.board, chess.turn, f, t)

ApplyMove(chess, f, t) ==
  [board |-> Place(chess.board, f, t),
   turn |-> Opp(chess.turn),
   halfMoves |-> IF chess.board[t] # Empty THEN 0 ELSE chess.halfMoves + 1,
   moveNumber |-> IF chess.turn = "b" THEN chess.moveNumber + 1 ELSE chess.moveNumber,
   history |-> Append(chess.history,
                      [move |-> VerboseMove(chess, f, t),
                       halfMoves |-> chess.halfMoves,
                       moveNumber |-> chess.moveNumber])]

Undo(chess) ==
  IF chess.history = << >> THEN chess
  ELSE LET n == Len(chess.history)
           old == chess.history[n]
           m == old.move
       IN [board |-> [chess.board EXCEPT
                        ![m.from] = Piece(m.piece, m.color),
                        ![m.to] = IF m.captured = "-" THEN Empty
                                  ELSE Piece(m.captured, Opp(m.color))],
           turn |-> m.color,
           halfMoves |-> old.halfMoves,
           moveNumber |-> old.moveNumber,
           history |-> SubSeq(chess.history, 1, n - 1)]

History(chess) == [i \in 1 .. Len(chess.history) |-> chess.history[i].move]

Moves(chess, square) == {t \in Files : IsLegalMove(chess, square, t)}

isCheck(chess) == KingAttacked(chess.board, chess.turn)

isCheckmate(chess) == isCheck(chess) /\ ~HasLegalMove(chess.board, chess.turn)

isStalemate(chess) == ~isCheck(chess) /\ ~HasLegalMove(chess.board, chess.turn)

isInsufficientMaterial(chess) ==
  LET men == {s \in Files : chess.board[s] # Empty}
  IN \/ Cardinality(men) = 2
     \/ Cardinality(men) = 3 /\ \E s \in men : TypeOf(chess.board[s]) = "n"

Key(chess) == [board |-> chess.board, turn |-> chess.turn]

RECURSIVE Occurrences(_, _)
\* How often the instance has stood in the position key: now and before each
\* of the moves of its history.
Occurrences(chess, key) ==
  (IF Key(chess) = key THEN 1 ELSE 0)
  + (IF chess.history = << >> THEN 0 ELSE Occurrences(Undo(chess), key))

isThreefoldRepetition(chess) == Occurrences(chess, Key(chess)) >= 3

isDrawByFiftyMoves(chess) == chess.halfMoves >= HalfMoveLimit

isDraw(chess) ==
  \/ isDrawByFiftyMoves(chess)
  \/ isStalemate(chess)
  \/ isInsufficientMaterial(chess)
  \/ isThreefoldRepetition(chess)

\* ---------------------------------------------------------------- state
VARIABLES
  game,            \* the Chess instance held by the component
  selectedSquare,  \* a file, or NoSquare
  validMoves,      \* destinations shown for the selection
  gameState,       \* the snapshot
  analysis,        \* the advisory text, or Null
  isAnalyzing,     \* the thinking indicator
  isMuted,
  pending,         \* the advisory request in flight, or NoRequest
  sounds,          \* playSound calls of the last handler
  audio,           \* audioService.play calls of the last handler
  last,            \* the last handler run and what it did
  applied,         \* the moves applied since the last reset, in order
  requests         \* advisory requests issued so far

vars == << game, selectedSquare, validMoves, gameState, analysis, isAnalyzing,
           isMuted, pending, sounds, audio, last, applied, requests >>

\* ---------------------------------------------------------------- controller
playSound(muted, types) == IF muted THEN << >> ELSE types

RECURSIVE capturedOf(_, _)
\* The kinds captured from colour c: the captures of the moves of the other side.
capturedOf(history, c) ==
  IF history = << >> THEN << >>
  ELSE LET n == Len(history)
           m == history[n]
           front == capturedOf(SubSeq(history, 1, n - 1), c)
       IN IF m.captured # "-" /\ (IF m.color = "w" THEN "b" ELSE "w") = c
          THEN Append(front, m.captured)
          ELSE front

\* syncGameState with the winner's draw test reading isStalemate alone.
syncGameStateStalemateOnly(chess) ==
  [fen |-> Fen(chess),
   turn |-> chess.turn,
   history |-> History(chess),
   isCheck |-> isCheck(chess),
   isCheckmate |-> isCheckmate(chess),
   isDraw |-> isDraw(chess) \/ isStalemate(chess) \/ isThreefoldRepetition(chess),
   winner |-> IF isCheckmate(chess)
              THEN (IF chess.turn = "w" THEN "b" ELSE "w")
              ELSE (IF isStalemate(chess) THEN "draw" ELSE "null"),
   captured |-> [w |-> capturedOf(History(chess), "w"),
                 b |-> capturedOf(History(chess), "b")]]

\* syncGameState naming the side to move as the winner of a checkmate.
syncGameStateWinnerToMove(chess) ==
  [fen |-> Fen(chess),
   turn |-> chess.turn,
   history |-> History(chess),
   isCheck |-> isCheck(chess),
   isCheckmate |-> isCheckmate(chess),
   isDraw |-> isDraw(chess) \/ isStalemate(chess) \/ isThreefoldRepetition(chess),
   winner |-> IF isCheckmate(chess)
              THEN chess.turn
              ELSE (IF isDraw(chess) THEN "draw" ELSE "null"),
   captured |-> [w |-> capturedOf(History(chess), "w"),
                 b |-> capturedOf(History(chess), "b")]]

syncGameState(chess) ==
  [fen |-> Fen(chess),
   turn |-> chess.turn,
   history |-> History(chess),
   isCheck |-> isCheck(chess),
   isCheckmate |-> isCheckmate(chess),
   isDraw |-> isDraw(chess) \/ isStalemate(chess) \/ isThreefoldRepetition(chess),
   winner |-> IF isCheckmate(chess)
              THEN (IF chess.turn = "w" THEN "b" ELSE "w")
              ELSE (IF isDraw(chess) THEN "draw" ELSE "null"),
   captured |-> [w |-> capturedOf(History(chess), "w"),
                 b |-> capturedOf(History(chess), "b")]]

InitialGameState ==
  [fen |-> [literal |-> "start"],
   turn |-> "w",
   history |-> << >>,
   isCheck |-> FALSE,
   isCheckmate |-> FALSE,
   isDraw |-> FALSE,
   winner |-> "null",
   captured |-> [w |-> << >>, b |-> << >>]]

moveSound(chess, result) ==
  IF isCheckmate(chess) \/ isDraw(chess) THEN END
  ELSE IF isCheck(chess) THEN CHECK
  ELSE IF result.captured # "-" THEN CAPTURE
  ELSE MOVE

\* makeMove with the sound effects outside the test of the engine's result.
makeMoveSoundOnReject(from, to) ==
  LET chess == Load(Fen(game))
  IN IF IsLegalMove(chess, from, to)
     THEN LET result == VerboseMove(chess, from, to)
              moved == ApplyMove(chess, from, to)
          IN [ok |-> TRUE,
              game |-> moved,
              gameState |-> syncGameState(moved),
              sounds |-> << moveSound(moved, result) >>,
              selectedSquare |-> NoSquare,
              validMoves |-> {},
              analysis |-> Null]
     ELSE [ok |-> FALSE,
           game |-> game,
           gameState |-> gameState,
           sounds |-> << MOVE >>,
           selectedSquare |-> selectedSquare,
           validMoves |-> validMoves,
           analysis |-> analysis]

\* makeMove without its selection reset.
makeMoveKeepSelection(from, to) ==
  LET chess == Load(Fen(game))
  IN IF IsLegalMove(chess, from, to)
     THEN LET result == VerboseMove(chess, from, to)
              moved == ApplyMove(chess, from, to)
          IN [ok |-> TRUE,
              game |-> moved,
              gameState |-> syncGameState(moved),
              sounds |-> << moveSound(moved, result) >>,
              selectedSquare |-> selectedSquare,
              validMoves |-> validMoves,
              analysis |-> Null]
     ELSE [ok |-> FALSE,
           game |-> game,
           gameState |-> gameState,
           sounds |-> << >>,
           selectedSquare |-> selectedSquare,
           validMoves |-> validMoves,
           analysis |-> analysis]

\* makeMove without its setAnalysis(null).
makeMoveKeepAnalysis(from, to) ==
  LET chess == Load(Fen(game))
  IN IF IsLegalMove(chess, from, to)
     THEN LET result == VerboseMove(chess, from, to)
              moved == ApplyMove(chess, from, to)
          IN [ok |-> TRUE,
              game |-> moved,
              gameState |-> syncGameState(moved),
              sounds |-> << moveSound(moved, result) >>,
              selectedSquare |-> NoSquare,
              validMoves |-> {},
              analysis |-> analysis]
     ELSE [ok |-> FALSE,
           game |-> game,
           gameState |-> gameState,
           sounds |-> << >>,
           selectedSquare |-> selectedSquare,
           validMoves |-> validMoves,
           analysis |-> analysis]

\* What makeMove leaves behind: whether the engine accepted the move, and the
\* component state and playSound calls after it.
makeMove(from, to) ==
  LET chess == Load(Fen(game))
  IN IF IsLegalMove(chess, from, to)
     THEN LET result == VerboseMove(chess, from, to)
              moved == ApplyMove(chess, from, to)
          IN [ok |-> TRUE,
              game |-> moved,
              gameState |-> syncGameState(moved),
              sounds |-> << moveSound(moved, result) >>,
              selectedSquare |-> NoSquare,
              validMoves |-> {},
              analysis |-> Null]
     ELSE [ok |-> FALSE,
           game |-> game,
           gameState |-> gameState,
           sounds |-> << >>,
           selectedSquare |-> selectedSquare,
           validMoves |-> validMoves,
           analysis |-> analysis]

Ran(op, attempted, moved) == [op |-> op, attempted |-> attempted, moved |-> moved]

Init ==
  /\ game = NewChess
  /\ selectedSquare = NoSquare
  /\ validMoves = {}
  /\ gameState = InitialGameState
  /\ analysis = Null
  /\ isAnalyzing = FALSE
  /\ isMuted = FALSE
  /\ pending = NoRequest
  /\ sounds = << >>
  /\ audio = << >>
  /\ last = Ran("init", FALSE, FALSE)
  /\ applied = << >>
  /\ requests = 0

\* Whether a control refuses input: of the board's cells and the undo,
\* analyze, mute and new-game buttons, the Analyze button alone carries a
\* disabled attribute.
disabled(control) == control = "analyze" /\ isAnalyzing

\* A handler that sets nothing and plays nothing.
Keep ==
  [game |-> game,
   gameState |-> gameState,
   selectedSquare |-> selectedSquare,
   validMoves |-> validMoves,
   analysis |-> analysis,
   sounds |-> << >>,
   audio |-> << >>,
   attempted |-> FALSE,
   moved |-> FALSE]

\* onSquareClick returning after makeMove whatever makeMove returned.
clickOutcomeStayOnReject(square, muted) ==
  LET attempted == selectedSquare # NoSquare
      move == makeMove(selectedSquare, square)
      own == game.board[square] # Empty /\ ColorOf(game.board[square]) = game.turn
  IN IF gameState.isCheckmate \/ gameState.isDraw THEN Keep
     ELSE IF selectedSquare = square
     THEN [Keep EXCEPT !.selectedSquare = NoSquare, !.validMoves = {}]
     ELSE IF attempted
     THEN [game |-> move.game,
           gameState |-> move.gameState,
           selectedSquare |-> move.selectedSquare,
           validMoves |-> move.validMoves,
           analysis |-> move.analysis,
           sounds |-> move.sounds,
           audio |-> playSound(muted, move.sounds),
           attempted |-> TRUE,
           moved |-> move.ok]
     ELSE [Keep EXCEPT !.selectedSquare = (IF own THEN square ELSE NoSquare),
                       !.validMoves = (IF own THEN Moves(game, square) ELSE {})]

\* onSquareClick without its deselect branch.
clickOutcomeNoDeselect(square, muted) ==
  LET attempted == selectedSquare # NoSquare
      move == makeMove(selectedSquare, square)
      own == game.board[square] # Empty /\ ColorOf(game.board[square]) = game.turn
  IN IF gameState.isCheckmate \/ gameState.isDraw THEN Keep
     ELSE IF attempted /\ move.ok
     THEN [game |-> move.game,
           gameState |-> move.gameState,
           selectedSquare |-> move.selectedSquare,
           validMoves |-> move.validMoves,
           analysis |-> move.analysis,
           sounds |-> move.sounds,
           audio |-> playSound(muted, move.sounds),
           attempted |-> TRUE,
           moved |-> TRUE]
     ELSE [game |-> (IF attempted THEN move.game ELSE game),
           gameState |-> (IF attempted THEN move.gameState ELSE gameState),
           selectedSquare |-> (IF own THEN square ELSE NoSquare),
           validMoves |-> (IF own THEN Moves(game, square) ELSE {}),
           analysis |-> (IF attempted THEN move.analysis ELSE analysis),
           sounds |-> (IF attempted THEN move.sounds ELSE << >>),
           audio |-> (IF attempted THEN playSound(muted, move.sounds) ELSE << >>),
           attempted |-> attempted,
           moved |-> FALSE]

\* onSquareClick without its early return on a finished game.
clickOutcomeNoTerminalGuard(square, muted) ==
  LET attempted == selectedSquare # NoSquare
      move == makeMove(selectedSquare, square)
      own == game.board[square] # Empty /\ ColorOf(game.board[square]) = game.turn
  IN IF selectedSquare = square
     THEN [Keep EXCEPT !.selectedSquare = NoSquare, !.validMoves = {}]
     ELSE IF attempted /\ move.ok
     THEN [game |-> move.game,
           gameState |-> move.gameState,
           selectedSquare |-> move.selectedSquare,
           validMoves |-> move.validMoves,
           analysis |-> move.analysis,
           sounds |-> move.sounds,
           audio |-> playSound(muted, move.sounds),
           attempted |-> TRUE,
           moved |-> TRUE]
     ELSE [game |-> (IF attempted THEN move.game ELSE game),
           gameState |-> (IF attempted THEN move.gameState ELSE gameState),
           selectedSquare |-> (IF own THEN square ELSE NoSquare),
           validMoves |-> (IF own THEN Moves(game, square) ELSE {}),
           analysis |-> (IF attempted THEN move.analysis ELSE analysis),
           sounds |-> (IF attempted THEN move.sounds ELSE << >>),
           audio |-> (IF attempted THEN playSound(muted, move.sounds) ELSE << >>),
           attempted |-> attempted,
           moved |-> FALSE]

\* What onSquareClick leaves behind; muted is the isMuted its playSound closed
\* over.
clickOutcome(square, muted) ==
  LET attempted == selectedSquare # NoSquare
      move == makeMove(selectedSquare, square)
      own == game.board[square] # Empty /\ ColorOf(game.board[square]) = game.turn
  IN IF gameState.isCheckmate \/ gameState.isDraw THEN Keep
     ELSE IF selectedSquare = square
     THEN [Keep EXCEPT !.selectedSquare = NoSquare, !.validMoves = {}]
     ELSE IF attempted /\ move.ok
     THEN [game |-> move.game,
           gameState |-> move.gameState,
           selectedSquare |-> move.selectedSquare,
           validMoves |-> move.validMoves,
           analysis |-> move.analysis,
           sounds |-> move.sounds,
           audio |-> playSound(muted, move.sounds),
           attempted |-> TRUE,
           moved |-> TRUE]
     ELSE [game |-> (IF attempted THEN move.game ELSE game),
           gameState |-> (IF attempted THEN move.gameState ELSE gameState),
           selectedSquare |-> (IF own THEN square ELSE NoSquare),
           validMoves |-> (IF own THEN Moves(game, square) ELSE {}),
           analysis |-> (IF attempted THEN move.analysis ELSE analysis),
           sounds |-> (IF attempted THEN move.sounds ELSE << >>),
           audio |-> (IF attempted THEN playSound(muted, move.sounds) ELSE << >>),
           attempted |-> attempted,
           moved |-> FALSE]

\* resetGame without its setAnalysis(null).
resetOutcomeKeepAnalysis(muted) ==
  [game |-> NewChess,
   gameState |-> syncGameState(NewChess),
   selectedSquare |-> NoSquare,
   validMoves |-> {},
   analysis |-> analysis,
   sounds |-> << START >>,
   audio |-> playSound(muted, << START >>),
   attempted |-> FALSE,
   moved |-> FALSE]

\* What resetGame leaves behind.
resetOutcome(muted) ==
  [game |-> NewChess,
   gameState |-> syncGameState(NewChess),
   selectedSquare |-> NoSquare,
   validMoves |-> {},
   analysis |-> Null,
   sounds |-> << START >>,
   audio |-> playSound(muted, << START >>),
   attempted |-> FALSE,
   moved |-> FALSE]

\* undoMove returning before its selection reset when muted.
undoOutcomeMutedKeepsSelection(muted) ==
  LET chess == Undo(Load(Fen(game)))
  IN [game |-> chess,
      gameState |-> syncGameState(chess),
      selectedSquare |-> (IF muted THEN selectedSquare ELSE NoSquare),
      validMoves |-> (IF muted THEN validMoves ELSE {}),
      analysis |-> analysis,
      sounds |-> << MOVE >>,
      audio |-> playSound(muted, << MOVE >>),
      attempted |-> FALSE,
      moved |-> FALSE]

\* What undoMove leaves behind.
undoOutcome(muted) ==
  LET chess == Undo(Load(Fen(game)))
  IN [game |-> chess,
      gameState |-> syncGameState(chess),
      selectedSquare |-> NoSquare,
      validMoves |-> {},
      analysis |-> analysis,
      sounds |-> << MOVE >>,
      audio |-> playSound(muted, << MOVE >>),
      attempted |-> FALSE,
      moved |-> FALSE]

\* The state updates of a handler, with the calls it made.
Commit(out) ==
  /\ game' = out.game
  /\ gameState' = out.gameState
  /\ selectedSquare' = out.selectedSquare
  /\ validMoves' = out.validMoves
  /\ analysis' = out.analysis
  /\ sounds' = out.sounds
  /\ audio' = out.audio

\* A click on a square; cap is the most moves a game of the model holds.
onSquareClick(square, cap) ==
  \E out \in {clickOutcome(square, isMuted)} :
     /\ ~disabled("board")
     /\ out.moved => Len(applied) < cap
     /\ Commit(out)
     /\ last' = Ran("click", out.attempted, out.moved)
     /\ applied' = (IF out.moved
                    THEN Append(applied, VerboseMove(game, selectedSquare, square))
                    ELSE applied)
     /\ UNCHANGED << isAnalyzing, isMuted, pending, requests >>

resetGame ==
  /\ ~disabled("reset")
  /\ \E out \in {resetOutcome(isMuted)} : Commit(out)
  /\ last' = Ran("reset", FALSE, FALSE)
  /\ applied' = << >>
  /\ UNCHANGED << isAnalyzing, isMuted, pending, requests >>

undoMove ==
  /\ ~disabled("undo")
  /\ \E out \in {undoOutcome(isMuted)} : Commit(out)
  /\ last' = Ran("undo", FALSE, FALSE)
  /\ UNCHANGED << isAnalyzing, isMuted, pending, applied, requests >>

\* analyzePosition: the model's text on the position asked about, or one of
\* the two fixed sentences (empty text, failed call).
analyzePosition(fen, history, outcome) ==
  CASE outcome = "text" -> [kind |-> "text", fen |-> fen, history |-> history]
    [] outcome = "empty" -> [kind |-> "unable"]
    [] OTHER -> [kind |-> "break"]

\* getCoachAnalysis up to its await (the button is disabled while isAnalyzing).
getCoachAnalysis ==
  /\ ~disabled("analyze")
  /\ requests < MaxRequests
  /\ requests' = requests + 1
  /\ isAnalyzing' = TRUE
  /\ pending' = [kind |-> "request", fen |-> Fen(game), history |-> History(game)]
  /\ sounds' = << >>
  /\ audio' = << >>
  /\ last' = Ran("analyze", FALSE, FALSE)
  /\ UNCHANGED << game, selectedSquare, validMoves, gameState, analysis,
                  isMuted, applied >>

\* getCoachAnalysis awaiting an analyzePosition that has no catch: a failed
\* call rejects and the two setters after the await never run.
analysisArrivesErrorPropagates(outcome) ==
  /\ pending # NoRequest
  /\ analysis' = (IF outcome = "error" THEN analysis
                  ELSE analyzePosition(pending.fen, pending.history, outcome))
  /\ isAnalyzing' = (outcome = "error")
  /\ pending' = NoRequest
  /\ sounds' = << >>
  /\ audio' = << >>
  /\ last' = Ran("arrive", FALSE, FALSE)
  /\ UNCHANGED << game, selectedSquare, validMoves, gameState, isMuted, applied, requests >>

\* getCoachAnalysis from its await on: the promise settles.
analysisArrives(outcome) ==
  /\ pending # NoRequest
  /\ analysis' = analyzePosition(pending.fen, pending.history, outcome)
  /\ isAnalyzing' = FALSE
  /\ pending' = NoRequest
  /\ sounds' = << >>
  /\ audio' = << >>
  /\ last' = Ran("arrive", FALSE, FALSE)
  /\ UNCHANGED << game, selectedSquare, validMoves, gameState, isMuted, applied, requests >>

toggleMute ==
  /\ ~disabled("mute")
  /\ isMuted' = ~isMuted
  /\ sounds' = << >>
  /\ audio' = << >>
  /\ last' = Ran("mute", FALSE, FALSE)
  /\ UNCHANGED << game, selectedSquare, validMoves, gameState, analysis,
                  isAnalyzing, pending, applied, requests >>

Click == \E square \in Files : onSquareClick(square, MaxMoves)

Arrive == \E outcome \in {"text", "empty", "error"} : analysisArrives(outcome)

Next ==
  \/ Click
  \/ resetGame
  \/ undoMove
  \/ getCoachAnalysis
  \/ Arrive
  \/ toggleMute

Spec == Init /\ [][Next]_vars

\* The promise of an advisory request in flight settles: the call returns a
\* text, returns none, or fails, and the event loop runs the continuation.
SpecFair == Init /\ [][Next]_vars /\ WF_vars(Arrive)

\* Clicks and new games alone, over longer games.
ClickGame == \E square \in Files : onSquareClick(square, MaxPlies)

NextGame ==
  \/ ClickGame
  \/ resetGame

SpecGame == Init /\ [][NextGame]_vars

\* ---------------------------------------------------------------- the game as played
RECURSIVE Replay(_)
\* One Chess instance on which the moves applied since the last reset were
\* made in order.
Replay(moves) ==
  IF moves = << >> THEN NewChess
  ELSE LET n == Len(moves)
       IN ApplyMove(Replay(SubSeq(moves, 1, n - 1)), moves[n].from, moves[n].to)

Played == Replay(applied)

\* The component's position is the position of the game as played.
AppliedAgrees == Fen(game) = Fen(Played)

Kinds == {"k", "n", "r"}

Count(seq, kind) == Cardinality({i \in DOMAIN seq : seq[i] = kind})

CapturesBy(mover, kind) ==
  Cardinality({i \in DOMAIN applied :
                 applied[i].color = mover /\ applied[i].captured = kind})

\* ---------------------------------------------------------------- claims

\* C1: after n successful moves from a fresh or reset game with no undo in
\* between, the snapshot's history has length n and lists those moves in the
\* order they were applied.  (Stated for SpecGame, whose games have no undo.)
C1_HistoryListsAppliedMoves ==
  /\ Len(gameState.history) = Len(applied)
  /\ gameState.history = applied

\* C2: the snapshot's captured multisets hold exactly one entry per capturing
\* move of the game (its captured kind), filed under the colour opposite to
\* the mover, and nothing else.  (Stated for SpecGame: sequences of moves.)
C2_CapturedListsEveryCapture ==
  \A c \in Colors : \A kind \in Kinds :
    Count(gameState.captured[c], kind) = CapturesBy(Opp(c), kind)

\* C3: undoLastMove with a non-empty history pops the most recent applied
\* move: afterwards the position, the side to move and the history are what
\* they were immediately before that move was applied.
C3_UndoRestoresPreviousPosition ==
  [][(last'.op = "undo" /\ gameState.history # << >>)
       => /\ Fen(game') = Fen(Undo(Played))
          /\ gameState'.turn = Undo(Played).turn
          /\ gameState'.history
               = SubSeq(gameState.history, 1, Len(gameState.history) - 1)]_vars

\* C4: advisory text is never displayed for a position other than the current
\* one (a result arriving after the position changed is not shown).
C4_AdvisoryDescribesCurrentPosition ==
  analysis.kind = "text" => analysis.fen = Fen(game)

\* C5: in every snapshot, winner is present iff isCheckmate or isDraw; it is a
\* colour only when isCheckmate holds and "draw" only when isDraw holds
\* without checkmate.
C5_WinnerIffTerminal ==
  /\ gameState.winner \in {"w", "b", "draw", "null"}
  /\ (gameState.winner # "null") <=> (gameState.isCheckmate \/ gameState.isDraw)
  /\ gameState.winner \in Colors => gameState.isCheckmate
  /\ gameState.winner = "draw" => (gameState.isDraw /\ ~gameState.isCheckmate)

\* A draw by insufficient material (the side to move still has moves) is
\* recorded with winner "draw".
C5_Witness ==
  /\ last.moved
  /\ isInsufficientMaterial(game)
  /\ ~isStalemate(game)
  /\ gameState.isDraw
  /\ gameState.winner = "draw"

\* C6: whenever a successful move produces checkmate, the snapshot's winner is
\* the side that made the move (the side not to move afterwards) and the
\* feedback event of the move is end.
C6_MatingSideWins ==
  (last.moved /\ gameState.isCheckmate)
    => /\ gameState.winner = applied[Len(applied)].color
       /\ gameState.winner = Opp(gameState.turn)
       /\ sounds = << END >>
       /\ (~isMuted => audio = << END >>)

C6_Witness ==
  /\ last.moved
  /\ gameState.isCheckmate
  /\ gameState.winner = "b"
  /\ sounds = << END >>

\* The event the priority order of the feedback classifier gives the last
\* applied move, with the draw conditions taken over the game as played.
ExpectedSound ==
  IF \/ isCheckmate(Played)
     \/ isStalemate(Played)
     \/ isInsufficientMaterial(Played)
     \/ isThreefoldRepetition(Played)
     \/ isDrawByFiftyMoves(Played)
  THEN END
  ELSE IF isCheck(Played) THEN CHECK
  ELSE IF applied[Len(applied)].captured # "-" THEN CAPTURE
  ELSE MOVE

\* C7: every successful move (sound not muted) emits exactly one feedback
\* event: end if the resulting position is checkmate or any draw condition
\* (stalemate, insufficient material, repetition, fifty-move), else check,
\* else capture, else move.
C7_OneEventByPriority ==
  (last.moved /\ ~isMuted)
    => /\ sounds = << ExpectedSound >>
       /\ audio = << ExpectedSound >>

\* C8: a move attempt the rules engine rejects leaves the position, the
\* snapshot and the advisory text as they were and emits no feedback event.
C8_RejectedAttemptChangesNothing ==
  [][(last'.op = "click" /\ last'.attempted /\ ~last'.moved)
       => /\ game' = game
          /\ gameState' = gameState
          /\ analysis' = analysis
          /\ sounds' = << >>
          /\ audio' = << >>]_vars

C8_Witness ==
  /\ last.op = "click"
  /\ last.attempted
  /\ ~last.moved
  /\ sounds = << >>

\* C9: immediately after any successful move the interaction state is Idle
\* (no selected square, no legal destinations) and the advisory text is absent.
C9_IdleAndNoAdvisoryAfterMove ==
  last.moved => /\ selectedSquare = NoSquare
                /\ validMoves = {}
                /\ analysis = Null

\* A move made after an advisory result had arrived.
C9_Witness ==
  /\ last.moved
  /\ requests > 0
  /\ pending = NoRequest
  /\ selectedSquare = NoSquare
  /\ analysis = Null

\* C10: undoLastMove requested when the history is empty is a no-op: snapshot,
\* interaction state and advisory text unchanged, no feedback event.
C10_UndoOnEmptyHistoryIsNoOp ==
  [][(last'.op = "undo" /\ gameState.history = << >>)
       => /\ gameState' = gameState
          /\ selectedSquare' = selectedSquare
          /\ validMoves' = validMoves
          /\ analysis' = analysis
          /\ sounds' = << >>]_vars

\* C11: after undoLastMove with a non-empty history the interaction state is
\* Idle (no selected square, no stored destinations) and the advisory text is
\* absent, whatever they were before.
C11_IdleAndNoAdvisoryAfterUndo ==
  [][(last'.op = "undo" /\ gameState.history # << >>)
       => /\ selectedSquare' = NoSquare
          /\ validMoves' = {}
          /\ analysis' = Null]_vars

\* C12: resetGame, from any reachable state, leaves the position in the
\* starting layout with white to move, the history and both captured lists
\* empty, no selection, no advisory text, no check, checkmate, draw or winner
\* in the snapshot, and it emits the start event.
C12_ResetGivesFreshGame ==
  last.op = "reset" =>
    /\ game.board = StartBoard
    /\ game.turn = "w"
    /\ History(game) = << >>
    /\ gameState.fen = DefaultFen
    /\ gameState.turn = "w"
    /\ gameState.history = << >>
    /\ gameState.captured = [w |-> << >>, b |-> << >>]
    /\ selectedSquare = NoSquare
    /\ validMoves = {}
    /\ analysis = Null
    /\ ~gameState.isCheck
    /\ ~gameState.isCheckmate
    /\ ~gameState.isDraw
    /\ gameState.winner = "null"
    /\ sounds = << START >>

\* A reset pressed after an advisory text had arrived.
C12_Witness ==
  /\ last.op = "reset"
  /\ requests > 0
  /\ pending = NoRequest

\* C13: once the snapshot is terminal (checkmate or draw) every click is a
\* no-op: the position, the snapshot, the selection and the advisory text are
\* unchanged, no move is attempted or applied, and no event is emitted.
C13_ClickOnFinishedGameIsNoOp ==
  [][(last'.op = "click" /\ (gameState.isCheckmate \/ gameState.isDraw))
       => /\ game' = game
          /\ gameState' = gameState
          /\ selectedSquare' = selectedSquare
          /\ validMoves' = validMoves
          /\ analysis' = analysis
          /\ applied' = applied
          /\ ~last'.attempted
          /\ ~last'.moved
          /\ sounds' = << >>
          /\ audio' = << >>]_vars

\* A click has been made on a finished game.
C13_Witness ==
  /\ gameState.isCheckmate \/ gameState.isDraw
  /\ last = Ran("click", FALSE, FALSE)

\* The game-logic state: everything the handlers set except the sound calls.
Logic(out) ==
  [game |-> out.game,
   gameState |-> out.gameState,
   selectedSquare |-> out.selectedSquare,
   validMoves |-> out.validMoves,
   analysis |-> out.analysis,
   attempted |-> out.attempted,
   moved |-> out.moved]

\* In the current state, a handler run with mute on and the same handler run
\* with mute off leave the same game-logic state, and the muted run makes no
\* call to the audio capability.
MuteBlind(mutedRun, plainRun) ==
  /\ Logic(mutedRun) = Logic(plainRun)
  /\ mutedRun.audio = << >>

\* C14: the mute setting does not alter game logic.  From every reachable
\* state each command (a click on any square, a reset, an undo) leaves the same
\* position, snapshot, interaction state and advisory text whether mute is on
\* or off; toggling mute changes none of them; and while mute is on no call
\* reaches the audio capability.  Two runs that receive the same commands and
\* differ only in their mute toggles therefore stay in the same game-logic
\* state step by step.
C14_MuteDoesNotAlterGameLogic ==
  /\ [](\A square \in Files : MuteBlind(clickOutcome(square, TRUE), clickOutcome(square, FALSE)))
  /\ [](MuteBlind(resetOutcome(TRUE), resetOutcome(FALSE)))
  /\ [](MuteBlind(undoOutcome(TRUE), undoOutcome(FALSE)))
  /\ [](isMuted => audio = << >>)
  /\ [][isMuted' # isMuted
          => UNCHANGED << game, gameState, selectedSquare, validMoves, analysis,
                          isAnalyzing, pending >>]_vars

\* A move made with mute on: a sound was due and none was played.
C14_Witness ==
  /\ isMuted
  /\ last.moved
  /\ sounds # << >>
  /\ audio = << >>

\* What the advisory request in flight can deliver.
Deliverable ==
  {analyzePosition(pending.fen, pending.history, "text"),
   [kind |-> "unable"],
   [kind |-> "break"]}

\* C15: every analyze command eventually completes: isAnalyzing returns to
\* false whether the advisory call succeeds, fails or returns empty text; the
\* text delivered is the model's text or one of the two fixed placeholders,
\* never a propagated error; and the board, undo and reset stay enabled while
\* the request is outstanding.
C15_AnalyzeCompletes ==
  /\ isAnalyzing ~> ~isAnalyzing
  /\ [][last'.op = "arrive" => ~isAnalyzing' /\ analysis' \in Deliverable]_vars
  /\ [](isAnalyzing
          => ~disabled("board") /\ ~disabled("undo") /\ ~disabled("reset"))

\* A failed advisory call has completed with its placeholder, after a move
\* was made while it was outstanding.
C15_Witness ==
  /\ last.op = "arrive"
  /\ ~isAnalyzing
  /\ analysis = [kind |-> "break"]
  /\ pending = NoRequest
  /\ applied # << >>

\* The square holds a piece of the side to move.
OwnPiece(square) ==
  game.board[square] # Empty /\ ColorOf(game.board[square]) = game.turn

\* The click left the interaction state Idle and applied no move.
IdleNoMove(out) ==
  /\ out.selectedSquare = NoSquare
  /\ out.validMoves = {}
  /\ ~out.moved
  /\ out.game = game

\* The click selected the square, with its legal destinations, and applied no
\* move.
SelectedNoMove(out, square) ==
  /\ out.selectedSquare = square
  /\ out.validMoves = Moves(game, square)
  /\ ~out.moved
  /\ out.game = game

\* The click applied the move from the selected square and left Idle.
MovedToIdle(out, square) ==
  /\ out.moved
  /\ Fen(out.game) = Fen(ApplyMove(game, selectedSquare, square))
  /\ out.gameState.fen = Fen(out.game)
  /\ out.selectedSquare = NoSquare
  /\ out.validMoves = {}

\* The row of the click table for a click on the square in the current state.
ClickTable(out, square) ==
  IF selectedSquare = NoSquare
  THEN IF OwnPiece(square) THEN SelectedNoMove(out, square) ELSE IdleNoMove(out)
  ELSE IF square = selectedSquare THEN IdleNoMove(out)
  ELSE IF square \in validMoves THEN MovedToIdle(out, square)
  ELSE IF OwnPiece(square) THEN SelectedNoMove(out, square)
  ELSE IdleNoMove(out)

\* C16: on a non-terminal snapshot a click follows the table.  Idle: a click
\* on a piece of the side to move selects it with its legal destinations, on
\* an empty or opponent square stays Idle.  Selected(s): a click on s goes to
\* Idle; on a legal destination applies the move and goes to Idle; on another
\* friendly piece selects that piece with its destinations recomputed; on
\* anything else goes to Idle with no move applied.
C16_ClickFollowsTable ==
  ~(gameState.isCheckmate \/ gameState.isDraw)
    => \A square \in Files : ClickTable(clickOutcome(square, isMuted), square)

\* A click changed the selection from one friendly piece to another, in a game
\* that had a capture.
C16_Witness ==
  /\ last = Ran("click", TRUE, FALSE)
  /\ selectedSquare # NoSquare
  /\ \E i \in DOMAIN applied : applied[i].captured # "-"

\* The click on the square made a move attempt that the engine rejected.
Rejected(out) == out.attempted /\ ~out.moved

\* C17 as stated: when the rules engine rejects a move attempted from
\* Selected(s), the interaction state is unchanged: the selected square stays
\* s and the stored destination set stays the same.
C17_RejectedAttemptKeepsSelection ==
  \A square \in Files :
    LET out == clickOutcome(square, isMuted)
    IN Rejected(out)
         => /\ out.selectedSquare = selectedSquare
            /\ out.validMoves = validMoves

\* C17 amended: when the rules engine rejects a move attempted from
\* Selected(s), no move is applied, the position, the snapshot and the
\* advisory text are unchanged and no event is emitted, and the click goes on
\* to select: the interaction state becomes Selected(t) with t's legal
\* destinations if the clicked square t holds a piece of the side to move, and
\* Idle otherwise; it never stays Selected(s).
C17_RejectedAttemptFallsThrough ==
  \A square \in Files :
    LET out == clickOutcome(square, isMuted)
    IN Rejected(out)
         => /\ out.gameState = gameState
            /\ out.analysis = analysis
            /\ out.sounds = << >>
            /\ out.selectedSquare # selectedSquare
            /\ IF OwnPiece(square) THEN SelectedNoMove(out, square)
               ELSE IdleNoMove(out)

\* A rejected attempt has left the interaction state Idle.
C17_Witness ==
  /\ last = Ran("click", TRUE, FALSE)
  /\ selectedSquare = NoSquare

\* C18: in every reachable state, the one before the first operation
\* included, the snapshot agrees with the authoritative position: its fen is
\* the position's serialization and its turn, isCheck and isCheckmate are the
\* rules engine's answers for that position.
C18_SnapshotAgreesWithPosition ==
  /\ gameState.fen = Fen(game)
  /\ gameState.turn = game.turn
  /\ gameState.isCheck = isCheck(game)
  /\ gameState.isCheckmate = isCheckmate(game)

\* C19: the snapshot's isDraw is true whenever any recognized draw condition
\* (stalemate, insufficient material, repetition, move-count rule) holds for
\* the game as played; in particular the move that brings the third
\* occurrence of a position yields isDraw = true, winner = "draw" and the end
\* event.
C19_DrawRecognisedForGameAsPlayed ==
  (isDraw(Played) \/ isStalemate(Played) \/ isThreefoldRepetition(Played))
    => /\ gameState.isDraw
       /\ gameState.winner = "draw"
       /\ last.moved => sounds = << END >>

\* C20: the stored selection is consistent with the current position in every
\* reachable state: with no square selected the stored destination set is
\* empty; with s selected, s holds a piece of the side to move in the current
\* position and the stored set is the engine's legal destinations of s.  No
\* selection survives a move, an undo or a reset.
C20_SelectionMatchesPosition ==
  /\ selectedSquare = NoSquare => validMoves = {}
  /\ selectedSquare # NoSquare
       => /\ selectedSquare \in Files
          /\ OwnPiece(selectedSquare)
          /\ validMoves = Moves(game, selectedSquare)
  /\ (last.moved \/ last.op \in {"undo", "reset"}) => selectedSquare = NoSquare

\* A piece of the side to move is selected after a move, with somewhere to go.
C20_Witness ==
  /\ selectedSquare # NoSquare
  /\ validMoves # {}
  /\ applied # << >>
  /\ last.op = "click"

====
